---------------------------- MODULE Spec2Model ----------------------------
(***************************************************************************)
(* Chat Noir (src/chat-noir.js): a cat on a hexagonal-adjacency board      *)
(* tries to reach the edge while the player blocks spots.                  *)
(*                                                                         *)
(* A spot is the tuple <<b, x, y>>: b is the number of the Board that      *)
(* created it (1 for the Board of the page load, 2 for the Board of the    *)
(* first reset, ...), x and y its coordinates.  Spots of earlier Boards    *)
(* stay alive, because the global `boundary` object keeps referring to     *)
(* them.  Math.random() is a nondeterministic choice over the values the   *)
(* floor() expressions can produce.                                        *)
(***************************************************************************)
EXTENDS Integers, Sequences, FiniteSets, TLC

\* ------------------------------------------------------------- bounds
\* Largest height and width of a played Board (the page uses 11).
MaxDim == 3
\* Largest height and width of a Board in the densely blocked games.
MaxDenseDim == 5
\* Largest height and width of a Board in the construction-only specification.
MaxBuildDim == 5
\* Largest numBlocks handed to the constructor in the construction-only
\* specification and to the played Boards of Spec (the page uses 6).
MaxBlocks == 2
\* Player inputs processed in one run: legal blocks and clicks on the reset button.
MaxEvents == 4
\* Longest side of a Board of one row or one column.
MaxNarrowDim == 5

\* ---------------------------------------------------------- constants
\* Infinity (the initial Spot.distance); larger than any hop count.
Infinity == 1000000
\* const DEBUG = false
DEBUG == FALSE
\* The global boundary object, as a node of the graph.
Boundary == <<"boundary">>
\* JavaScript's undefined (this.grid[key] of a missing key).
Undefined == <<>>

VARIABLES
  pc,           \* "start": script not run; "play": waiting for a click; "blocks": setInitialBlocks never returns
  boards,       \* number of Boards constructed so far
  height,       \* this.height of the current Board
  width,        \* this.width of the current Board
  numBlocks,    \* the constructor's numBlocks argument
  grid,         \* the spots in this.grid of the current Board
  adjacent,     \* spot.adjacent of every spot ever created
  blocked,      \* spot.blocked of every spot ever created
  distance,     \* spot.distance of every spot ever created
  cat,          \* this.cat of the current Board
  boundaryAdj,  \* boundary.adjacent
  move,         \* the cell nextStepForCat returned in the last cat turn of the current Board
  outcome,      \* what the last cat turn of the current Board did: "none", "continue", "win", "lose", "error"
  announced,    \* number of gameEnd calls made by the current Board
  resultMessage,\* textContent of #result-message
  nClicks,      \* legal player blocks processed so far
  nUpdates,     \* runs of updateDistances so far
  nPolicy,      \* calls of nextStepForCat so far
  asserted,     \* console.assert has logged "Height & width must be odd"
  threw         \* an event handler ended with an uncaught TypeError

vars == <<pc, boards, height, width, numBlocks, grid, adjacent, blocked,
          distance, cat, boundaryAdj, move, outcome, announced, resultMessage,
          nClicks, nUpdates, nPolicy, asserted, threw>>

\* ------------------------------------------------------------ helpers
Range(s) == {s[k] : k \in 1..Len(s)}

Odd(n) == n % 2 = 1

\* The spot object stored under key `${x}-${y}` of a Board's grid.
Spot(b, x, y) == <<b, x, y>>

\* The largest element in place of the smallest.
MathMin_Max(seq) ==
  IF Len(seq) = 0 THEN Infinity
  ELSE CHOOSE m \in Range(seq) : \A v \in Range(seq) : m >= v

\* Math.min(...seq): Infinity for the empty list.
MathMin(seq) ==
  IF Len(seq) = 0 THEN Infinity
  ELSE CHOOSE m \in Range(seq) : \A v \in Range(seq) : m <= v

\* ------------------------------------------------- Board.constructor
\* The grid enumeration: every (x, y) but the top-left and bottom-left spots.
InGrid(h, w, x, y) ==
  /\ x \in 0..(w - 1)
  /\ y \in 0..(h - 1)
  /\ ~(x = 0 /\ (y = 0 \/ y = h - 1))

GridSpots(b, h, w) ==
  {Spot(b, x, y) : <<x, y>> \in {c \in (0..(w - 1)) \X (0..(h - 1)) : InGrid(h, w, c[1], c[2])}}

\* Object.values(this.grid): the spots in insertion order (y outer, x inner).
RECURSIVE GridOrderFrom(_, _, _, _)
GridOrderFrom(b, h, w, k) ==
  IF k >= h * w THEN <<>>
  ELSE LET x == k % w
           y == k \div w
       IN  (IF InGrid(h, w, x, y) THEN <<Spot(b, x, y)>> ELSE <<>>) \o
           GridOrderFrom(b, h, w, k + 1)

GridOrder(b, h, w) == GridOrderFrom(b, h, w, 0)

\* ------------------------------------------------- Board.createGraph
\* The candidates of an even row taken for every row.
Cands_NoParity(b, x, y) ==
  << Spot(b, x - 1, y - 1), Spot(b, x, y - 1), Spot(b, x - 1, y),
     Spot(b, x + 1, y), Spot(b, x - 1, y + 1), Spot(b, x, y + 1) >>

\* The candidates by row parity, those of an odd row listed column by column.
Cands_OddRowByColumn(b, x, y) ==
  IF y % 2 = 0
  THEN << Spot(b, x - 1, y - 1), Spot(b, x, y - 1), Spot(b, x - 1, y),
          Spot(b, x + 1, y), Spot(b, x - 1, y + 1), Spot(b, x, y + 1) >>
  ELSE << Spot(b, x - 1, y), Spot(b, x, y - 1), Spot(b, x, y + 1),
          Spot(b, x + 1, y - 1), Spot(b, x + 1, y), Spot(b, x + 1, y + 1) >>

\* The candidate neighbours of the spot at (x, y), by row parity.
Cands(b, x, y) ==
  IF y % 2 = 0
  THEN << Spot(b, x - 1, y - 1), Spot(b, x, y - 1), Spot(b, x - 1, y),
          Spot(b, x + 1, y), Spot(b, x - 1, y + 1), Spot(b, x, y + 1) >>
  ELSE << Spot(b, x, y - 1), Spot(b, x + 1, y - 1), Spot(b, x - 1, y),
          Spot(b, x + 1, y), Spot(b, x, y + 1), Spot(b, x + 1, y + 1) >>

\* cands.filter(neigh => neigh !== undefined)
NeighboursOf(s, spots) ==
  LET InSpots(n) == n \in spots
  IN  SelectSeq(Cands(s[1], s[2], s[3]), InSpots)

\* The test that registers a spot as an adjacency of the boundary.
OnEdge(s, h, w) ==
  s[2] = 0 \/ s[3] = 0 \/ s[2] = w - 1 \/ s[3] = h - 1

\* boundary.adjacent after createGraph of Board b: the edge spots are
\* pushed onto whatever the list already holds.
BoundaryAfterCreate(old, b, h, w) ==
  LET Edge(s) == OnEdge(s, h, w)
  IN  old \o SelectSeq(GridOrder(b, h, w), Edge)

\* ---------------------------------------------- Board.setInitialCat
\* Math.floor(n / 2.5 + Math.random() * (n / 5)) over the reals.
CatCoords(n) == ((2 * n) \div 5)..(((3 * n + 4) \div 5) - 1)

\* ------------------------------------------- Board.setInitialBlocks
\* Math.floor((Math.random() * n) / 4)
BlockOffsets(n) == 0..((n - 1) \div 4)

\* The spots of Board b the loop can draw: x is dx or width - dx - 1, y is
\* dy or height - dy - 1.
BlockSpots(b, h, w) ==
  {s \in GridSpots(b, h, w) :
     /\ \E dx \in BlockOffsets(w) : s[2] = dx \/ s[2] = w - dx - 1
     /\ \E dy \in BlockOffsets(h) : s[3] = dy \/ s[3] = h - dy - 1}

\* The sets of spots the loop can leave blocked, drawing among the spots
\* `free` (in reach, not the cat's, all unblocked in a new Board): any n of
\* them.  With fewer than n such spots the loop blocks them all and spins.
InitialBlocks(free, n) ==
  IF n <= Cardinality(free)
  THEN {B \in SUBSET free : Cardinality(B) = n}
  ELSE {free}

\* ------------------------------------------- Board.updateDistances
\* The inner loop without the test of n.blocked.
RECURSIVE VisitAdjacent_IgnoresBlocked(_, _, _, _)
VisitAdjacent_IgnoresBlocked(adj, d, st, blk) ==
  IF adj = <<>> THEN st
  ELSE LET n == Head(adj)
       IN  IF n \in st.seen
           THEN VisitAdjacent_IgnoresBlocked(Tail(adj), d, st, blk)
           ELSE VisitAdjacent_IgnoresBlocked(Tail(adj), d,
                  [toVisit  |-> Append(st.toVisit, n),
                   seen     |-> st.seen \cup {n},
                   distance |-> [st.distance EXCEPT ![n] = d + 1]],
                  blk)

\* The inner for loop over spot.adjacent; st = [toVisit, seen, distance],
\* d is spot.distance.
RECURSIVE VisitAdjacent(_, _, _, _)
VisitAdjacent(adj, d, st, blk) ==
  IF adj = <<>> THEN st
  ELSE LET n == Head(adj)
       IN  IF n \in st.seen \/ blk[n]
           THEN VisitAdjacent(Tail(adj), d, st, blk)
           ELSE VisitAdjacent(Tail(adj), d,
                  [toVisit  |-> Append(st.toVisit, n),
                   seen     |-> st.seen \cup {n},
                   distance |-> [st.distance EXCEPT ![n] = d + 1]],
                  blk)

\* The while loop over toVisit.
RECURSIVE WhileToVisit(_, _, _, _)
WhileToVisit(st, adj, bAdj, blk) ==
  IF st.toVisit = <<>> THEN st.distance
  ELSE LET spot == Head(st.toVisit)
           rest == [st EXCEPT !.toVisit = Tail(st.toVisit)]
       IN  IF spot = Boundary
           THEN WhileToVisit(VisitAdjacent(bAdj, 0, rest, blk), adj, bAdj, blk)
           ELSE WhileToVisit(VisitAdjacent(adj[spot], st.distance[spot], rest, blk),
                             adj, bAdj, blk)

\* updateDistances without the reset of the distances to Infinity.
UpdateDistances_NoReset(g, dist, adj, bAdj, blk) ==
  WhileToVisit([toVisit |-> <<Boundary>>, seen |-> {}, distance |-> dist],
               adj, bAdj, blk)

\* updateDistances with `seen` kept from the pass before: the spots that
\* pass labelled count as seen already.
UpdateDistances_StaleSeen(g, dist, adj, bAdj, blk) ==
  WhileToVisit([toVisit  |-> <<Boundary>>,
                seen     |-> {s \in DOMAIN dist : dist[s] # Infinity},
                distance |-> [s \in DOMAIN dist |-> IF s \in g THEN Infinity ELSE dist[s]]],
               adj, bAdj, blk)

\* updateDistances of a Board with grid g: reset the Board's own spots,
\* then the breadth-first search from the boundary.
UpdateDistances(g, dist, adj, bAdj, blk) ==
  WhileToVisit([toVisit  |-> <<Boundary>>,
                seen     |-> {},
                distance |-> [s \in DOMAIN dist |-> IF s \in g THEN Infinity ELSE dist[s]]],
               adj, bAdj, blk)

\* --------------------------------------------- Board.nextStepForCat
\* The best spots of the whole Board rather than of the cat's neighbours.
Paths_WholeGrid(c, dist, adj) ==
  LET all == GridOrder(c[1], height, width)
      minSteps == MathMin([k \in 1..Len(all) |-> dist[all[k]]])
      Best(n) == dist[n] = minSteps
  IN  SelectSeq(all, Best)

\* Every neighbour with a finite distance, in place of the best ones.
Paths_AnyReachable(c, dist, adj) ==
  LET Reachable(n) == dist[n] # Infinity
  IN  SelectSeq(adj[c], Reachable)

\* The first best neighbour only, in place of all of them.
Paths_FirstBest(c, dist, adj) ==
  LET adjToCat == adj[c]
      distancesNextToCat == [k \in 1..Len(adjToCat) |-> dist[adjToCat[k]]]
      minSteps == MathMin(distancesNextToCat)
      Best(n) == dist[n] = minSteps
  IN  SubSeq(SelectSeq(adjToCat, Best), 1, 1)

\* adjToCat.filter(n => n.distance === minSteps), with
\* minSteps = Math.min(...adjToCat.map(n => n.distance)).
Paths(c, dist, adj) ==
  LET adjToCat == adj[c]
      distancesNextToCat == [k \in 1..Len(adjToCat) |-> dist[adjToCat[k]]]
      minSteps == MathMin(distancesNextToCat)
      Best(n) == dist[n] = minSteps
  IN  SelectSeq(adjToCat, Best)

\* Math.floor(Math.random() * paths.length), as a position in the list
\* (sequences count from 1): any of them.
RandomIndex(len) == 1..len

\* ------------------------------------------------- Spot.handleClick
\* The guard with the test for the cat left out.
Ignored_BlockedOnly(s) == blocked[s]

\* The guard with the test for blocked spots left out.
Ignored_CatOnly(s) == cat = s

\* "ignore clicks on the cat or already-blocked spots"
Ignored(s) == cat = s \/ blocked[s]

\* ------------------------------------------------------ Board.gameEnd
GameEnd(o) ==
  /\ resultMessage' = o
  /\ announced' = announced + 1

\* ------------------------------------------------------ Board.moveCat
\* The test for the player's win made against the boundary's distance.
Trapped_AtZero(m, dist) == dist[m] = 0

\* move.distance === Infinity: the cat is trapped, the player wins.
Trapped(m, dist) == dist[m] = Infinity

\* The test for the player's loss, made one hop too late.
Escaping_AtZero(c, dist) == dist[c] = 0

\* The test for the player's loss, made one hop too early.
Escaping_AtTwo(c, dist) == dist[c] = 2

\* this.cat.distance === 1: the cat stands next to the boundary.
Escaping(c, dist) == dist[c] = 1

\* moveCat without the two end-of-game tests: the cat moves when the
\* selected spot has a finite distance, and nothing is ever reported.
MoveCat_NoTerminalCheck(blk) ==
  LET dist == UpdateDistances(grid, distance, adjacent, boundaryAdj, blk)
  IN  /\ distance' = dist
      /\ nUpdates' = nUpdates + 1
      /\ nPolicy' = nPolicy + 1
      /\ \E k \in RandomIndex(Len(Paths(cat, dist, adjacent))) :
           LET m == Paths(cat, dist, adjacent)[k]
           IN  /\ move' = m
               /\ cat' = IF dist[m] = Infinity THEN cat ELSE m
      /\ outcome' = "continue"
      /\ UNCHANGED <<threw, resultMessage, announced>>

\* moveCat with the blocked flags blk: nextStepForCat (updateDistances,
\* then a random best neighbour), then the move and the end-of-game tests.
\* this.cat.adjacent of an undefined cat, and move.distance of an
\* undefined move, throw a TypeError that nothing catches.
MoveCat(blk) ==
  LET dist == UpdateDistances(grid, distance, adjacent, boundaryAdj, blk)
  IN  /\ distance' = dist
      /\ nUpdates' = nUpdates + 1
      /\ nPolicy' = nPolicy + 1
      /\ IF cat = Undefined \/ Len(Paths(cat, dist, adjacent)) = 0
         THEN /\ threw' = TRUE
              /\ outcome' = "error"
              /\ move' = Undefined
              /\ UNCHANGED <<cat, resultMessage, announced>>
         ELSE \E k \in RandomIndex(Len(Paths(cat, dist, adjacent))) :
                LET m == Paths(cat, dist, adjacent)[k]
                IN  /\ move' = m
                    /\ UNCHANGED threw
                    /\ IF Trapped(m, dist)
                       THEN /\ outcome' = "win"
                            /\ GameEnd("win")
                            /\ UNCHANGED cat
                       ELSE /\ cat' = m
                            /\ IF Escaping(m, dist)
                               THEN /\ outcome' = "lose"
                                    /\ GameEnd("lose")
                               ELSE /\ outcome' = "continue"
                                    /\ UNCHANGED <<resultMessage, announced>>

\* A click that also takes the blocked spot out of its neighbours' lists.
HandleClick_Unlinks(s) ==
  /\ pc = "play"
  /\ s \in grid
  /\ IF Ignored(s)
     THEN UNCHANGED vars
     ELSE /\ nClicks + boards <= MaxEvents
          /\ nClicks' = nClicks + 1
          /\ blocked' = [blocked EXCEPT ![s] = TRUE]
          /\ MoveCat([blocked EXCEPT ![s] = TRUE])
          /\ adjacent' = [n \in DOMAIN adjacent |->
                            LET NotS(m) == m # s IN SelectSeq(adjacent[n], NotS)]
          /\ UNCHANGED <<pc, boards, height, width, numBlocks, grid,
                         boundaryAdj, asserted>>

\* A click that flips the flag of any spot but the cat's.
HandleClick_Toggle(s) ==
  /\ pc = "play"
  /\ s \in grid
  /\ IF cat = s
     THEN UNCHANGED vars
     ELSE /\ nClicks + boards <= MaxEvents
          /\ nClicks' = nClicks + 1
          /\ blocked' = [blocked EXCEPT ![s] = ~blocked[s]]
          /\ MoveCat([blocked EXCEPT ![s] = ~blocked[s]])
          /\ UNCHANGED <<pc, boards, height, width, numBlocks, grid,
                         adjacent, boundaryAdj, asserted>>

\* A click on spot s of the current Board.
HandleClick(s) ==
  /\ pc = "play"
  /\ s \in grid
  /\ IF Ignored(s)
     THEN UNCHANGED vars
     ELSE /\ nClicks + boards <= MaxEvents
          /\ nClicks' = nClicks + 1
          /\ blocked' = [blocked EXCEPT ![s] = TRUE]
          /\ MoveCat([blocked EXCEPT ![s] = TRUE])
          /\ UNCHANGED <<pc, boards, height, width, numBlocks, grid,
                         adjacent, boundaryAdj, asserted>>

\* ------------------------------------------------- Board.constructor
\* new Board(h, w, n): the assertion (console.assert logs and returns), the
\* grid, createGraph, setInitialCat, setInitialBlocks, and in debug mode
\* updateDistances.  When setInitialBlocks cannot find n spots the
\* constructor never returns: pc stays "blocks".
Construct(h, w, n) ==
  LET b == boards + 1
      spots == GridSpots(b, h, w)
      adj2 == [s \in spots |-> NeighboursOf(s, spots)] @@ adjacent
      bAdj2 == BoundaryAfterCreate(boundaryAdj, b, h, w)
      dist2 == [s \in spots |-> Infinity] @@ distance
  IN  /\ asserted' = (asserted \/ ~(Odd(h) /\ Odd(w)))
      /\ boards' = b
      /\ height' = h
      /\ width' = w
      /\ numBlocks' = n
      /\ grid' = spots
      /\ adjacent' = adj2
      /\ boundaryAdj' = bAdj2
      /\ \E x \in CatCoords(w), y \in CatCoords(h) :
           LET c == IF Spot(b, x, y) \in spots THEN Spot(b, x, y) ELSE Undefined
           IN  /\ cat' = c
               /\ \E B \in InitialBlocks(BlockSpots(b, h, w) \ {c}, n) :
                    LET blk2 == [s \in spots |-> s \in B] @@ blocked
                        returns == Cardinality(B) = n
                    IN  /\ blocked' = blk2
                        /\ pc' = IF returns THEN "play" ELSE "blocks"
                        /\ IF returns /\ DEBUG
                           THEN /\ distance' = UpdateDistances(spots, dist2, adj2, bAdj2, blk2)
                                /\ nUpdates' = nUpdates + 1
                           ELSE /\ distance' = dist2
                                /\ UNCHANGED nUpdates
      /\ move' = Undefined
      /\ outcome' = "none"
      /\ announced' = 0
      /\ UNCHANGED <<resultMessage, nClicks, nPolicy, threw>>

\* ------------------------------------------------------ the script
\* The sizes a played Board is given here, in place of the page's 11.
PlayDims == {d \in 3..MaxDim : Odd(d)}

\* Sizes of the construction-only specification: odd and even.
BuildDims == 1..MaxBuildDim

\* const board = new Board(...) when the page loads.
Load ==
  /\ pc = "start"
  /\ \E h \in PlayDims, w \in PlayDims, n \in 0..MaxBlocks : Construct(h, w, n)

\* Sizes of the densely blocked games: square Boards wider than those of Spec.
DenseDims == {d \in (MaxDim + 1)..MaxDenseDim : Odd(d)}

\* The numBlocks of a densely blocked Board of h rows and w columns: as many
\* as there are spots setInitialBlocks can reach (14 on a 5 x 5 Board).
DenseBlocks(h, w) == Cardinality(BlockSpots(1, h, w))

\* The same statement, the constructor given a larger Board and a numBlocks
\* that fills its corners.
LoadDense ==
  /\ pc = "start"
  /\ \E d \in DenseDims : Construct(d, d, DenseBlocks(d, d))

\* The same statement, the constructor given any size.
LoadAny ==
  /\ pc = "start"
  /\ \E h \in BuildDims, w \in BuildDims, n \in 0..MaxBlocks : Construct(h, w, n)

\* Odd sizes of which one is 1 and the other larger: Boards of one row or
\* one column (a 1 x 1 Board has no spot at all).
NarrowDims ==
  {hw \in (1..MaxNarrowDim) \X (1..MaxNarrowDim) :
     /\ Odd(hw[1]) /\ Odd(hw[2])
     /\ (hw[1] = 1 \/ hw[2] = 1)
     /\ hw[1] + hw[2] >= 4}

\* The same statement, the constructor given one row or one column.
LoadNarrow ==
  /\ pc = "start"
  /\ \E hw \in NarrowDims, n \in 0..MaxBlocks : Construct(hw[1], hw[2], n)

\* The click handler of #reset-button: a new Board of the same arguments.
Reset ==
  /\ pc = "play"
  /\ nClicks + boards <= MaxEvents
  /\ Construct(height, width, numBlocks)

Click == \E s \in grid : HandleClick(s)

Init ==
  /\ pc = "start"
  /\ boards = 0
  /\ height = 0
  /\ width = 0
  /\ numBlocks = 0
  /\ grid = {}
  /\ adjacent = <<>>
  /\ blocked = <<>>
  /\ distance = <<>>
  /\ cat = Undefined
  /\ boundaryAdj = <<>>
  /\ move = Undefined
  /\ outcome = "none"
  /\ announced = 0
  /\ resultMessage = ""
  /\ nClicks = 0
  /\ nUpdates = 0
  /\ nPolicy = 0
  /\ asserted = FALSE
  /\ threw = FALSE

Next == Load \/ Click \/ Reset

Spec == Init /\ [][Next]_vars

\* Games on densely blocked Boards.
NextDense == LoadDense \/ Click \/ Reset

SpecDense == Init /\ [][NextDense]_vars

\* One game on an odd-sized Board of any of the shapes: one row or one
\* column, 3 x 3, densely blocked 5 x 5.
NextOdd == LoadNarrow \/ Load \/ LoadDense \/ Click

SpecOdd == Init /\ [][NextOdd]_vars

\* Construction only, for any height and width.
NextBuild == LoadAny

SpecBuild == Init /\ [][NextBuild]_vars

\* ---------------------------------------------------------------- claims

\* C1: once a cat turn has reported Win or Lose for a Board, no later click
\* on that Board changes a blocked flag, moves the cat or reports another
\* outcome.  handleClick tests no such thing, so the game goes on.
C1_TerminalAbsorbing ==
  [][(announced > 0 /\ boards' = boards)
       => (blocked' = blocked /\ cat' = cat /\ announced' = announced)]_vars

\* C2: after construction and after any sequence of clicks, board.cat is one
\* spot of the current Board's grid, and that spot is not blocked.
C2_CatOnUnblockedCell ==
  pc # "start" => (cat \in grid /\ ~blocked[cat])

\* C2 witness: on a Board built by a reset, with initial blocks, the cat has
\* moved twice: onto an edge spot and from there back to a spot two hops
\* from the boundary.
C2_Witness ==
  /\ pc = "play"
  /\ boards >= 2
  /\ nClicks >= 2
  /\ outcome = "continue"
  /\ cat \in grid
  /\ distance[cat] = 2
  /\ numBlocks > 0

\* The outer-ring spots of the current Board.
OuterRing == {s \in grid : s[2] = 0 \/ s[3] = 0 \/ s[2] = width - 1 \/ s[3] = height - 1}

\* The minimum hop count from the escape node over paths of unblocked spots
\* of the current Board under the flags blk, computed level by level:
\* front holds the spots exactly k hops away, d the labels given so far.
RECURSIVE Flood(_, _, _, _)
Flood(front, k, d, blk) ==
  IF front = {} THEN d
  ELSE LET d2 == [s \in grid |-> IF s \in front THEN k ELSE d[s]]
           nxt == {n \in grid : /\ ~blk[n]
                                /\ d2[n] = Infinity
                                /\ \E s \in front : n \in Range(adjacent[s])}
       IN  Flood(nxt, k + 1, d2, blk)

ShortestHops(blk) ==
  Flood({s \in OuterRing : ~blk[s]}, 1, [s \in grid |-> Infinity], blk)

\* C3: after an updateDistances pass, on the first Board and on Boards built
\* by resets, every unblocked spot the escape node reaches through unblocked
\* spots is labelled with its minimum hop count (an unblocked outer-ring spot
\* with 1); every blocked spot and every spot with no such path is labelled
\* Infinity.  Stated of the labels the last cat turn left, and of the labels
\* a pass would compute from the present flags.
C3_DistancesAreShortestHops ==
  LET hops == ShortestHops(blocked)
      pass == UpdateDistances(grid, distance, adjacent, boundaryAdj, blocked)
  IN  /\ outcome # "none" => \A s \in grid : distance[s] = hops[s]
      /\ pc = "play" => \A s \in grid : pass[s] = hops[s]

\* C3 witness: on a Board built by a reset a pass has run and left an
\* unblocked spot with no path to the escape node (labelled Infinity), an
\* unblocked outer-ring spot (labelled 1) and a spot two hops away.
C3_Witness ==
  /\ boards >= 2
  /\ outcome # "none"
  /\ \E s \in grid : ~blocked[s] /\ distance[s] = Infinity
  /\ \E s \in OuterRing : ~blocked[s] /\ distance[s] = 1
  /\ \E s \in grid : distance[s] = 2

\* A cat turn is a step in which nextStepForCat is called.
CatTurn == nPolicy' # nPolicy

\* C4: a cat turn has exactly one of three outcomes, fixed by the distances
\* it has just computed: the selected move has distance Infinity, Win is
\* reported and the cat stays; or the cat moves to the selected spot, and
\* Lose is reported if that spot has distance 1, nothing if it has more.
C4_ThreeOutcomes ==
  [][CatTurn =>
       /\ move' \in grid
       /\ IF distance'[move'] = Infinity
          THEN /\ outcome' = "win"
               /\ resultMessage' = "win"
               /\ announced' = announced + 1
               /\ cat' = cat
          ELSE /\ cat' = move'
               /\ IF distance'[move'] = 1
                  THEN /\ outcome' = "lose"
                       /\ resultMessage' = "lose"
                       /\ announced' = announced + 1
                  ELSE /\ distance'[move'] > 1
                       /\ outcome' = "continue"
                       /\ resultMessage' = resultMessage
                       /\ announced' = announced]_vars

\* C4 witness: the first outcome reported on a Board is Win: earlier turns
\* moved the cat and reported nothing, this one left it where it was.
C4_Witness ==
  /\ outcome = "win"
  /\ announced = 1
  /\ distance[move] = Infinity
  /\ cat # move
  /\ nClicks >= 2

\* C5 as claimed: the spot nextStepForCat returns is in cat.adjacent and is
\* not blocked.  When every neighbour of the cat has distance Infinity the
\* filter keeps them all, the blocked ones too.  Stated of the turns of a
\* Board on which no outcome has been reported yet, so that a violation is
\* one of a game still open.
C5_MoveIsUnblockedNeighbour ==
  [][(CatTurn /\ announced = 0) =>
       (move' \in Range(adjacent[cat]) /\ ~blocked'[move'])]_vars

\* C5 as amended: the spot nextStepForCat returns is in cat.adjacent, and
\* it is not blocked unless its distance is Infinity (the turn then reports
\* Win and the cat does not move).
C5_MoveIsNeighbourUnblockedIfFinite ==
  [][CatTurn =>
       /\ move' \in Range(adjacent[cat])
       /\ (distance'[move'] = Infinity \/ ~blocked'[move'])]_vars

\* C5 witness: the first outcome reported on a Board is Win, and the turn
\* returned a blocked neighbour of the cat although an unblocked neighbour
\* (of distance Infinity too) was there.
C5_Witness ==
  /\ outcome = "win"
  /\ announced = 1
  /\ cat \in grid
  /\ move \in Range(adjacent[cat])
  /\ blocked[move]
  /\ \E n \in Range(adjacent[cat]) : ~blocked[n]

\* C6 as claimed: once a Board is constructed, after resets too,
\* boundary.adjacent holds exactly the outer-ring spots of the current
\* Board, each once.  createGraph pushes onto the one global list, which
\* the reset handler never empties.
C6_BoundaryIsCurrentRing ==
  pc # "start" =>
    /\ Range(boundaryAdj) = OuterRing
    /\ Len(boundaryAdj) = Cardinality(OuterRing)

\* C7 as claimed: with an even height or width the constructor fails: no
\* grid is built, no cat placed, no spot blocked (so no playable Board
\* results).  console.assert only logs, and the constructor goes on.
C7_EvenSizeFails ==
  (pc # "start" /\ (height % 2 = 0 \/ width % 2 = 0)) =>
    /\ grid = {}
    /\ cat = Undefined
    /\ \A s \in DOMAIN blocked : ~blocked[s]

\* C8: a click on the cat's spot or on a blocked spot is a no-op: no error,
\* no distance recompute, no cat turn, and the blocked flags, the distance
\* labels and the cat are as before.
C8_IllegalClickIsNoOp ==
  [][\/ UNCHANGED <<blocked, distance, cat, nUpdates, nPolicy, threw,
                    outcome, announced, resultMessage>>
     \/ \A s \in grid : ~((s = cat \/ blocked[s]) /\ HandleClick(s))]_vars

\* C8 witness: a game is under way (the cat has moved, spots are blocked,
\* distances are labelled), so both kinds of ignored click can be made.
C8_Witness ==
  /\ pc = "play"
  /\ outcome = "continue"
  /\ cat \in grid
  /\ \E s \in grid : blocked[s] /\ s \in Range(adjacent[cat])

\* A legal player block: a spot of the current Board turns blocked.
LegalBlock ==
  /\ boards' = boards
  /\ \E s \in grid : ~blocked[s] /\ blocked'[s]

\* C9: a legal player block comes with exactly one cat turn: one run of
\* updateDistances, one call of nextStepForCat, and the cat ends where it
\* was or on a spot adjacent to where it was.  No cat turn happens without
\* a legal block.
C9_OneTurnPerBlock ==
  [][/\ LegalBlock =>
          /\ nUpdates' = nUpdates + 1
          /\ nPolicy' = nPolicy + 1
          /\ (cat' = cat \/ cat' \in Range(adjacent[cat]))
     /\ ~LegalBlock =>
          /\ nPolicy' = nPolicy
          /\ (cat' = cat \/ boards' # boards)]_vars

\* C9 witness: after three legal blocks three passes and three turns have
\* run, and the last turn moved the cat.
C9_Witness ==
  /\ nClicks = 3
  /\ nUpdates = 3
  /\ nPolicy = 3
  /\ outcome = "continue"
  /\ cat = move

\* C10: for odd height and width the adjacency createGraph builds is
\* symmetric: B is in A.adjacent exactly if A is in B.adjacent.
C10_AdjacencySymmetric ==
  (pc # "start" /\ Odd(height) /\ Odd(width)) =>
    \A a \in grid, b \in grid :
      (b \in Range(adjacent[a])) <=> (a \in Range(adjacent[b]))

\* C10 witness: an odd Board of at least 3 x 3 whose spots (1,0) and (0,1),
\* both next to the omitted corner (0,0), are adjacent to each other, (1,0)
\* having three neighbours in all.
C10_Witness ==
  /\ pc = "play"
  /\ Odd(height) /\ Odd(width)
  /\ height >= 3 /\ width >= 3
  /\ Spot(boards, 0, 0) \notin grid
  /\ Spot(boards, 0, 1) \in Range(adjacent[Spot(boards, 1, 0)])
  /\ Spot(boards, 1, 0) \in Range(adjacent[Spot(boards, 0, 1)])
  /\ Len(adjacent[Spot(boards, 1, 0)]) = 3
\* C11: every cat turn completes without an uncaught error and
\* nextStepForCat returns a spot of the Board; when every neighbour of the
\* cat is blocked (Math.min over Infinity labels only, the filter keeping
\* them all) the turn reports Win and the cat stays where it is.
C11_TurnCompletes ==
  [][CatTurn =>
       /\ ~threw'
       /\ move' \in grid
       /\ (\A n \in Range(adjacent[cat]) : blocked'[n]) =>
            /\ outcome' = "win"
            /\ resultMessage' = "win"
            /\ announced' = announced + 1
            /\ cat' = cat]_vars

\* C11 witness: the first outcome reported on a Board is Win, reported by a
\* turn that found every neighbour of the cat blocked and raised no error.
C11_Witness ==
  /\ outcome = "win"
  /\ announced = 1
  /\ ~threw
  /\ cat \in grid
  /\ Len(adjacent[cat]) > 0
  /\ \A n \in Range(adjacent[cat]) : blocked[n]
  /\ move \in Range(adjacent[cat])

\* C12: updateDistances is idempotent: with no blocked flag changed in
\* between, a second pass leaves every spot with the label the first pass
\* gave it.  Stated of two passes run from the present state, and of a
\* pass run on the labels the last cat turn left.
C12_UpdateDistancesIdempotent ==
  pc = "play" =>
    LET once  == UpdateDistances(grid, distance, adjacent, boundaryAdj, blocked)
        twice == UpdateDistances(grid, once, adjacent, boundaryAdj, blocked)
    IN  /\ twice = once
        /\ outcome # "none" => once = distance

\* C12 witness: after two cat turns the labels in place are finite for some
\* spots of the Board and Infinity for a blocked one, and so is what a
\* further pass computes.
C12_Witness ==
  /\ pc = "play"
  /\ nUpdates >= 2
  /\ outcome = "continue"
  /\ \E s \in grid : distance[s] = 3
  /\ \E s \in grid : blocked[s] /\ distance[s] = Infinity
  /\ UpdateDistances(grid, distance, adjacent, boundaryAdj, blocked) = distance

\* C13: once createGraph has run, no player block, distance pass or cat
\* turn changes a spot's adjacent list: a step that builds no Board leaves
\* the grid, the sizes, boundary.adjacent and every adjacent list as they
\* were (what it changes of the Board is blocked, distance and cat), and
\* no step at all changes the adjacent list of a spot that exists.
C13_AdjacencyFrozen ==
  [][/\ \A s \in DOMAIN adjacent :
          s \in DOMAIN adjacent' /\ adjacent'[s] = adjacent[s]
     /\ boards' = boards =>
          /\ adjacent' = adjacent
          /\ grid' = grid
          /\ height' = height
          /\ width' = width
          /\ boundaryAdj' = boundaryAdj]_vars

\* C13 witness: two legal blocks and two cat turns later blocked, distance
\* and cat have changed, and every spot's adjacent list is still the
\* filtered candidate list createGraph built.
C13_Witness ==
  /\ pc = "play"
  /\ nClicks >= 2
  /\ nPolicy >= 2
  /\ cat = move
  /\ distance[cat] = 2
  /\ Cardinality({s \in grid : blocked[s]}) = numBlocks + nClicks
  /\ \A s \in grid : adjacent[s] = NeighboursOf(s, grid)

\* The neighbours of spot c whose label under dist is the least label of
\* any neighbour of c.
MinNeighbours(c, dist) ==
  {n \in Range(adjacent[c]) : \A o \in Range(adjacent[c]) : dist[n] <= dist[o]}

\* C14, selection: the spot a cat turn selects is a neighbour of the cat
\* whose freshly computed distance is the minimum over cat.adjacent.
C14_MoveHasMinimumDistance ==
  [][CatTurn => move' \in MinNeighbours(cat, distance')]_vars

\* C14, tie-break: whatever spot the player blocks next, every neighbour of
\* the cat that attains the minimum of the distances then computed is a
\* possible selection of the turn: it stands in `paths` at a position the
\* random index can take.
C14_EveryMinimumSelectable ==
  (pc = "play" /\ nClicks + boards <= MaxEvents) =>
    \A s \in grid :
      ~(cat = s \/ blocked[s]) =>
        LET blk  == [blocked EXCEPT ![s] = TRUE]
            dist == UpdateDistances(grid, distance, adjacent, boundaryAdj, blk)
            paths == Paths(cat, dist, adjacent)
        IN  \A m \in MinNeighbours(cat, dist) :
              \E k \in RandomIndex(Len(paths)) : paths[k] = m

\* C14: both parts, the tie-break in every reachable state and the
\* selection in every step.
C14_MinimumAndAnyMinimum ==
  []C14_EveryMinimumSelectable /\ C14_MoveHasMinimumDistance

\* C14 witness: the first turn of a game had several neighbours of the cat
\* tied at the minimum distance 2, and selected one that is not the first
\* of them in cat.adjacent.
C14_Witness ==
  /\ pc = "play"
  /\ boards = 1
  /\ nClicks = 1
  /\ outcome = "continue"
  /\ cat = move
  /\ \E c0 \in grid :
       /\ c0[2] \in CatCoords(width)
       /\ c0[3] \in CatCoords(height)
       /\ move \in MinNeighbours(c0, distance)
       /\ distance[move] = 2
       /\ Cardinality(MinNeighbours(c0, distance)) >= 2
       /\ move # Paths(c0, distance, adjacent)[1]

\* The offsets of the six candidate neighbours, in the order listed, of a
\* spot in an even row and of a spot in an odd row.
EvenRowOffsets == << <<-1, -1>>, <<0, -1>>, <<-1, 0>>, <<1, 0>>, <<-1, 1>>, <<0, 1>> >>

OddRowOffsets == << <<0, -1>>, <<1, -1>>, <<-1, 0>>, <<1, 0>>, <<0, 1>>, <<1, 1>> >>

\* The cells of a width x height Board: all but (0, 0) and (0, height - 1).
ExpectedCells ==
  {c \in (0..(width - 1)) \X (0..(height - 1)) :
     c # <<0, 0>> /\ c # <<0, height - 1>>}

\* The candidate list of the cell (x, y) with the candidates that are not
\* cells removed, order kept.
ExpectedAdjacent(x, y) ==
  LET offs == IF y % 2 = 0 THEN EvenRowOffsets ELSE OddRowOffsets
      cand == [k \in 1..6 |-> <<x + offs[k][1], y + offs[k][2]>>]
      IsCell(c) == c \in ExpectedCells
  IN  SelectSeq(cand, IsCell)

\* C15: for odd height and width the grid holds exactly the cells (x, y) of
\* [0, width) x [0, height) other than (0, 0) and (0, height - 1), and the
\* adjacent list of each is its row-parity candidate list without the
\* candidates that are not cells, in the listed order.
C15_GridAndAdjacency ==
  (pc # "start" /\ Odd(height) /\ Odd(width)) =>
    /\ grid = {Spot(boards, c[1], c[2]) : c \in ExpectedCells}
    /\ \A s \in grid :
         LET exp == ExpectedAdjacent(s[2], s[3])
         IN  adjacent[s] = [k \in 1..Len(exp) |-> Spot(boards, exp[k][1], exp[k][2])]

\* C15 witness: a Board of 5 rows and 3 columns is built; its spot (1, 1),
\* in an odd row, has all six neighbours, and its spot (0, 1), below the
\* omitted corner, has four.
C15_Witness ==
  /\ pc = "play"
  /\ height = 5
  /\ width = 3
  /\ Len(adjacent[Spot(boards, 1, 1)]) = 6
  /\ adjacent[Spot(boards, 0, 1)] =
       << Spot(boards, 1, 0), Spot(boards, 1, 1), Spot(boards, 0, 2), Spot(boards, 1, 2) >>

\* The spots that a step leaves blocked and found unblocked.
NewlyBlocked == {s \in DOMAIN blocked : blocked'[s] /\ ~blocked[s]}

\* C16: blocking is permanent and one spot at a time: no step turns a
\* blocked flag from true to false, and a step that processes a legal
\* player block is handleClick of one spot of the Board, unblocked and not
\* the cat's, and leaves the flags as they were but for that spot's; no
\* other step on the same Board blocks anything.
C16_BlockingPermanentOneAtATime ==
  [][/\ \A s \in DOMAIN blocked : blocked[s] => (s \in DOMAIN blocked' /\ blocked'[s])
     /\ nClicks' # nClicks =>
          \E s \in grid :
            /\ ~blocked[s]
            /\ s # cat
            /\ NewlyBlocked = {s}
            /\ blocked' = [blocked EXCEPT ![s] = TRUE]
            /\ HandleClick(s)
     /\ (nClicks' = nClicks /\ boards' = boards) => blocked' = blocked]_vars

\* C16 witness: three legal blocks have been made on the first Board and
\* the blocked spots are the initial ones and three more.
C16_Witness ==
  /\ pc = "play"
  /\ boards = 1
  /\ nClicks = 3
  /\ numBlocks > 0
  /\ Cardinality({s \in grid : blocked[s]}) = numBlocks + 3

\* Under the flags blk a path of unblocked spots leads from spot c to an
\* outer-ring spot of the current Board.
CanEscape(c, blk) == ShortestHops(blk)[c] # Infinity

\* C17: on a Board of at least 3 x 3 on which no outcome has been reported
\* yet, a cat turn reports Win exactly if, with the player's block in
\* place, no path of unblocked spots leads from the cat's spot to an
\* outer-ring spot.
C17_WinIffEnclosed ==
  [][(CatTurn /\ announced = 0 /\ height >= 3 /\ width >= 3) =>
       /\ outcome' = "win" <=> ~CanEscape(cat, blocked')
       /\ announced' = announced + 1 <=> outcome' \in {"win", "lose"}
       /\ outcome' = "win" => resultMessage' = "win"]_vars

\* C17 witness: the first outcome reported on a Board is Win; the cat has
\* an unblocked neighbour and the outer ring has an unblocked spot, but no
\* path of unblocked spots joins them.
C17_Witness ==
  /\ outcome = "win"
  /\ announced = 1
  /\ height >= 3 /\ width >= 3
  /\ cat \in grid
  /\ ~CanEscape(cat, blocked)
  /\ \E n \in Range(adjacent[cat]) : ~blocked[n]
  /\ \E r \in OuterRing : ~blocked[r]

\* C18, the turn: a cat turn reports Lose exactly if the cat moved in that
\* turn and stands on an outer-ring spot after it.
C18_LoseIffMovedOntoRing ==
  [][CatTurn =>
       /\ outcome' = "lose" <=> (cat' # cat /\ cat' \in OuterRing)
       /\ outcome' = "lose" =>
            (resultMessage' = "lose" /\ announced' = announced + 1)]_vars

\* C18, the consequence: on a Board of at least 3 x 3 on which no outcome
\* has been reported the cat is not on an outer-ring spot.
C18_CatInsideBeforeOutcome ==
  (pc = "play" /\ height >= 3 /\ width >= 3 /\ announced = 0) =>
    cat \notin OuterRing

\* C18: both parts.
C18_LoseOnRing ==
  []C18_CatInsideBeforeOutcome /\ C18_LoseIffMovedOntoRing

\* C18 witness: after a turn that moved the cat and reported nothing, a
\* turn moved it onto an outer-ring spot and reported Lose, the first
\* outcome of the Board.
C18_Witness ==
  /\ outcome = "lose"
  /\ announced = 1
  /\ nClicks >= 2
  /\ height >= 3 /\ width >= 3
  /\ cat = move
  /\ cat \in OuterRing
  /\ distance[cat] = 1

\* The spots a legal player block can take: unblocked and not the cat's.
LegalBlocks == {s \in grid : s # cat /\ ~blocked[s]}

\* Legal blocks made on the current Board so far, and the number of spots
\* that were unblocked and not the cat's when the Board was built
\* (setInitialBlocks blocked numBlocks spots).
BlocksMade == Cardinality({s \in grid : blocked[s]}) - numBlocks

InitiallyFree == Cardinality(grid \ {cat}) - numBlocks

\* C19 as claimed: on any Board, as long as no outcome has been reported a
\* legal block exists, and fewer blocks have been made than there were
\* unblocked non-cat spots at the start (so that an outcome is reported
\* after at most that many blocks).  A Board of one column and three rows
\* holds the cat's spot alone.
C19_EveryGameEnds ==
  (pc = "play" /\ announced = 0) =>
    /\ LegalBlocks # {}
    /\ BlocksMade < InitiallyFree

\* C19 as amended: the same on Boards of odd height and width of at least 3.
C19_EveryGameEndsFromThreeByThree ==
  (pc = "play" /\ announced = 0 /\ Odd(height) /\ Odd(width)
     /\ height >= 3 /\ width >= 3) =>
    /\ LegalBlocks # {}
    /\ BlocksMade < InitiallyFree

\* C19 witness: on a Board of at least 3 x 3 three legal blocks have been
\* made, three cat turns have moved the cat, no outcome has been reported,
\* and legal blocks are left: three fewer than at the start.
C19_Witness ==
  /\ pc = "play"
  /\ announced = 0
  /\ outcome = "continue"
  /\ Odd(height) /\ Odd(width)
  /\ height >= 3 /\ width >= 3
  /\ BlocksMade = 3
  /\ Cardinality(LegalBlocks) = InitiallyFree - 3
  /\ LegalBlocks # {}

\* C20: in a cat turn in which the cat's own freshly computed distance d
\* is finite and at least 2, the cat moves, and the spot it moves to has
\* distance d - 1 in the same pass.
C20_StepAlongShortestPath ==
  [][(CatTurn /\ cat \in grid /\ distance'[cat] # Infinity /\ distance'[cat] >= 2) =>
       /\ cat' = move'
       /\ cat' \in Range(adjacent[cat])
       /\ distance'[cat'] = distance'[cat] - 1]_vars

\* C20 witness: in the first turn of a game the cat stood at distance 3
\* and stepped to a neighbour at distance 2; nothing was reported.
C20_Witness ==
  /\ pc = "play"
  /\ boards = 1
  /\ nClicks = 1
  /\ outcome = "continue"
  /\ \E c0 \in grid :
       /\ c0[2] \in CatCoords(width)
       /\ c0[3] \in CatCoords(height)
       /\ distance[c0] = 3
       /\ cat \in Range(adjacent[c0])
       /\ cat = move
       /\ distance[cat] = distance[c0] - 1

=============================================================================
